---- MODULE Spec2Model ----
(***************************************************************************)
(* Midpoint Riemann sum computed three ways: riemann_suma_secuencial.c,    *)
(* openmp_riemann_suma.c and mpi_riemann_suma.c.                           *)
(*                                                                         *)
(* Doubles are modelled exactly.  a and b are integer-valued, delta_x and  *)
(* x are rationals <<numerator, denominator>>, and a sum is the bag of the *)
(* terms funcion(x) * delta_x that were added to it (addition taken as     *)
(* exact, so the order of additions is not recorded).  0.0 is the empty    *)
(* bag: a term whose delta_x is zero is 0.0 and adding it changes nothing. *)
(***************************************************************************)
EXTENDS Integers, Sequences, FiniteSets, Bags, TLC

\* ---------------------------------------------------------------- bounds
MaxN == 3
MaxSize == 3
MaxHilos == 2
MaxClock == 1

\* ------------------------------------------------------ program constants
EXIT_FAILURE == 1
EXIT_SUCCESS == 0
MpiArgc == 4
SeqArgc == 4
OmpArgc == 5

\* ------------------------------------------------------------- arithmetic
Zero == EmptyBag

TruncDiv(x, y) ==
    IF y = 0 THEN 0
    ELSE IF (x >= 0) = (y > 0) THEN
             (IF x >= 0 THEN x ELSE -x) \div (IF y > 0 THEN y ELSE -y)
         ELSE -((IF x >= 0 THEN x ELSE -x) \div (IF y > 0 THEN y ELSE -y))

\* delta_x without the lower limit taken off
DeltaXNoLower(a, b, n) == <<b, n>>

\* delta_x = (b - a) / n
DeltaX(a, b, n) == <<b - a, n>>

\* x = a + (i + 0.5) * delta_x
MidPoint(a, b, n, i) == <<2 * n * a + (2 * i + 1) * (b - a), 2 * n>>

\* funcion(x): sin(x), kept uninterpreted
funcion(x) == <<"sin", x>>

\* funcion(x) * delta_x
Term(fx, dx) == IF dx[1] = 0 THEN Zero ELSE SetToBag({<<fx, dx>>})

\* suma += t
Add(suma, t) == suma (+) t

\* ------------------------------------------------------------ command line
Digits == <<"0", "1", "2", "3", "4", "5", "6", "7", "8", "9">>

IsDigit(c) == \E k \in 1..10 : Digits[k] = c

DigitVal(c) == (CHOOSE k \in 1..10 : Digits[k] = c) - 1

RECURSIVE ParseDigits(_, _, _)
ParseDigits(s, k, acc) ==
    IF k <= Len(s) /\ IsDigit(s[k])
    THEN ParseDigits(s, k + 1, 10 * acc + DigitVal(s[k]))
    ELSE acc

RECURSIVE SkipSpace(_, _)
SkipSpace(s, k) == IF k <= Len(s) /\ s[k] = " " THEN SkipSpace(s, k + 1) ELSE k

\* atol: leading blanks, an optional sign, then digits up to the first
\* character that is none; 0 when there is no digit (no overflow at the
\* lengths used here)
atol(s) ==
    LET k == SkipSpace(s, 1) IN
    IF k <= Len(s) /\ s[k] = "-" THEN -ParseDigits(s, k + 1, 0)
    ELSE IF k <= Len(s) /\ s[k] = "+" THEN ParseDigits(s, k + 1, 0)
    ELSE ParseDigits(s, k, 0)

atoi(s) == atol(s)

\* atof on the integer literals used here: the value of the leading decimal
\* integer, as a double
atof(s) == atol(s)

ToStr(k) == IF k < 10 THEN <<Digits[k + 1]>>
            ELSE <<Digits[(k \div 10) + 1], Digits[(k % 10) + 1]>>

LowerArgs == {<<"2">>, <<"-", "1">>}
UpperArgs == {<<"2">>}
LongArgs == {<<"0">>, <<"-", "5">>, <<"x">>} \cup {ToStr(k) : k \in 1..MaxN}
HilosArgs == {<<"0">>, <<"-", "1">>} \cup {ToStr(k) : k \in 1..MaxHilos}

Name(p) == <<p>>

\* argv as a function on 0..argc-1
MkArgv(s) == [k \in 0..(Len(s) - 1) |-> s[k + 1]]

MpiLines == {<<Name("mpi"), a, b, n>> : a \in LowerArgs, b \in UpperArgs, n \in LongArgs}
SeqLines == {<<Name("seq"), a, b, n>> : a \in LowerArgs, b \in UpperArgs, n \in LongArgs}
OmpLines == {<<Name("omp"), l[2], l[3], l[4], h>> : l \in SeqLines, h \in HilosArgs}

ShortLines(L) == {SubSeq(l, 1, Len(l) - 1) : l \in L}


\* ------------------------------------------------------------ Riemann sums
\* The loop running to fin inclusive
LoopCondInclusive(i, fin) == i <= fin

\* for (long i = inicio; i < fin; i++)
LoopCond(i, fin) == i < fin

\* The loop of calcular_suma_riemann: <<suma, number of calls of funcion>>
RECURSIVE RiemannLoop(_, _, _, _, _, _, _)
RiemannLoop(a, b, n, i, fin, suma, calls) ==
    IF LoopCond(i, fin)
    THEN RiemannLoop(a, b, n, i + 1, fin,
                     Add(suma, Term(funcion(MidPoint(a, b, n, i)), DeltaX(a, b, n))),
                     calls + 1)
    ELSE <<suma, calls>>

\* mpi_riemann_suma.c: calcular_suma_riemann(params, inicio, fin)
calcular_suma_riemann(params, inicio, fin) ==
    RiemannLoop(params.a, params.b, params.n, inicio, fin, Zero, 0)[1]

IntegrandCalls(params, inicio, fin) ==
    RiemannLoop(params.a, params.b, params.n, inicio, fin, Zero, 0)[2]

\* riemann_suma_secuencial.c: calcular_suma_riemann(a, b, n)
calcular_suma_riemann_secuencial(a, b, n) ==
    RiemannLoop(a, b, n, 0, n, Zero, 0)[1]

\* --------------------------------------------------------------- the state
VARIABLES
    prog,            \* which executable runs: "mpi", "seq", "omp" ("none": a bare call)
    argv,            \* the command line, argv[0] .. argv[argc-1]
    size,            \* MPI_Comm_size
    pc,              \* per rank: where main is
    params,          \* per rank: IntegracionParams
    inicio, fin,     \* per rank: the range of the rank
    suma_local,      \* per rank
    suma_total,      \* per rank
    start_time,      \* per rank
    end_time,        \* per rank
    bcast_msg,       \* per rank: the broadcast payload in flight to it (a set, empty or one)
    arrived1,        \* ranks that entered the first barrier
    arrived2,        \* ranks that entered the second barrier
    reduce_msg,      \* per rank: its contribution in flight to the root (a set, empty or one)
    reduce_acc,      \* the reduction's running total at the root
    combined,        \* per rank: how many times its contribution was combined
    aborted,         \* MPI_Abort was called
    exit_code,       \* per rank: {} while running, {status} once ended
    seq,             \* riemann_suma_secuencial.c: main's locals and position
    omp,             \* openmp_riemann_suma.c: main's locals and position
    region,          \* the parallel region of calcular_suma_riemann_openmp
    stdout,          \* lines printed to standard output
    stderr,          \* lines printed to standard error
    invoked,         \* calls of a Riemann-sum function so far
    now,             \* wall clock
    call             \* a bare call of calcular_suma_riemann

vars == <<prog, argv, size, pc, params, inicio, fin, suma_local, suma_total,
          start_time, end_time, bcast_msg, arrived1, arrived2, reduce_msg,
          reduce_acc, combined, aborted, exit_code, seq, omp, region,
          stdout, stderr, invoked, now, call>>

mpiVars == <<size, pc, params, inicio, fin, suma_local, suma_total, start_time,
             end_time, bcast_msg, arrived1, arrived2, reduce_msg, reduce_acc,
             combined, aborted, exit_code>>

argc == Cardinality(DOMAIN argv)

Ranks == 0..(size - 1)

\* What an uninitialised IntegracionParams may hold
UninitParams == {[a |-> 0, b |-> 0, n |-> 0], [a |-> 1, b |-> 0, n |-> -1]}

\* MPI_Wtime(), omp_get_wtime(), clock(): a reading of the clock, never
\* earlier than the last reading
ClockReadings == now..MaxClock

Line(text, suma, time) == [text |-> text, suma |-> suma, time |-> time]

Printed(out, text) == \E k \in 1..Len(out) : out[k].text = text

SeqOff == [pc |-> "off", a |-> 0, b |-> 0, n |-> 0, suma_total |-> Zero,
           inicio |-> 0, fin |-> 0, exit |-> {}]

OmpOff == [pc |-> "off", a |-> 0, b |-> 0, n |-> 0, num_hilos |-> 0,
           suma_total |-> Zero, start_time |-> 0, end_time |-> 0, exit |-> {}]

RegionOff == [todo |-> {}, suma |-> <<>>, owner |-> <<>>, delta_x |-> <<0, 0>>]

CallOff == [state |-> "off", params |-> [a |-> 0, b |-> 0, n |-> 0],
            inicio |-> 0, fin |-> 0, ret |-> Zero, calls |-> 0]

InitCommon ==
    /\ stdout = <<>>
    /\ stderr = <<>>
    /\ invoked = 0
    /\ now = 0

InitMpi ==
    /\ prog = "mpi"
    /\ argv \in {MkArgv(l) : l \in MpiLines \cup ShortLines(MpiLines)}
    /\ size \in 1..MaxSize
    /\ pc = [r \in Ranks |-> IF r = 0 THEN "args" ELSE "bcast"]
    /\ params \in [Ranks -> UninitParams]
    /\ inicio = [r \in Ranks |-> 0]
    /\ fin = [r \in Ranks |-> 0]
    /\ suma_local = [r \in Ranks |-> Zero]
    /\ suma_total = [r \in Ranks |-> Zero]
    /\ start_time = [r \in Ranks |-> 0]
    /\ end_time = [r \in Ranks |-> 0]
    /\ bcast_msg = [r \in Ranks |-> {}]
    /\ arrived1 = {}
    /\ arrived2 = {}
    /\ reduce_msg = [r \in Ranks |-> {}]
    /\ reduce_acc = Zero
    /\ combined = [r \in Ranks |-> 0]
    /\ aborted = FALSE
    /\ exit_code = [r \in Ranks |-> {}]
    /\ seq = SeqOff /\ omp = OmpOff /\ region = RegionOff /\ call = CallOff

MpiOff ==
    /\ size = 0
    /\ pc = <<>> /\ params = <<>> /\ inicio = <<>> /\ fin = <<>>
    /\ suma_local = <<>> /\ suma_total = <<>> /\ start_time = <<>> /\ end_time = <<>>
    /\ bcast_msg = <<>> /\ arrived1 = {} /\ arrived2 = {} /\ reduce_msg = <<>>
    /\ reduce_acc = Zero /\ combined = <<>> /\ aborted = FALSE /\ exit_code = <<>>


\* ------------------------------------------------------ mpi_riemann_suma.c
\* argc != 4
MpiBadArgc(n_args) == n_args # MpiArgc

\* The check letting n = 0 through
MpiInvalidNStrict(n) == n < 0

\* params.n <= 0
MpiInvalidN(n) == n <= 0

MpiParsed == [a |-> atof(argv[1]), b |-> atof(argv[2]), n |-> atol(argv[3])]

\* The failure reported without MPI_Abort: main goes on to MPI_Bcast
MpiAbortReturns ==
    /\ aborted' = aborted
    /\ pc' = [pc EXCEPT ![0] = "bcast"]
    /\ exit_code' = exit_code

\* MPI_Abort(MPI_COMM_WORLD, EXIT_FAILURE): the caller ends at once, the
\* other ranks are ended by the runtime (MpiKill)
MpiAbort ==
    /\ aborted' = TRUE
    /\ pc' = [pc EXCEPT ![0] = "aborted"]
    /\ exit_code' = [exit_code EXCEPT ![0] = {EXIT_FAILURE}]

MpiUsage ==
    /\ prog = "mpi" /\ pc[0] = "args"
    /\ MpiBadArgc(argc)
    /\ stderr' = Append(stderr, "Uso")
    /\ MpiAbort
    /\ UNCHANGED <<prog, argv, size, params, inicio, fin, suma_local, suma_total,
                   start_time, end_time, bcast_msg, arrived1, arrived2, reduce_msg,
                   reduce_acc, combined, seq, omp, region, stdout, invoked, now, call>>

MpiReject ==
    /\ prog = "mpi" /\ pc[0] = "args"
    /\ ~MpiBadArgc(argc)
    /\ MpiInvalidN(MpiParsed.n)
    /\ params' = [params EXCEPT ![0] = MpiParsed]
    /\ stderr' = Append(stderr, "El numero de subintervalos debe ser un entero positivo")
    /\ MpiAbort
    /\ UNCHANGED <<prog, argv, size, inicio, fin, suma_local, suma_total,
                   start_time, end_time, bcast_msg, arrived1, arrived2, reduce_msg,
                   reduce_acc, combined, seq, omp, region, stdout, invoked, now, call>>

MpiParse ==
    /\ prog = "mpi" /\ pc[0] = "args"
    /\ ~MpiBadArgc(argc)
    /\ ~MpiInvalidN(MpiParsed.n)
    /\ params' = [params EXCEPT ![0] = MpiParsed]
    /\ stdout' = Append(stdout, Line("Aproximando", Zero, 0))
    /\ pc' = [pc EXCEPT ![0] = "bcast"]
    /\ UNCHANGED <<prog, argv, size, inicio, fin, suma_local, suma_total,
                   start_time, end_time, bcast_msg, arrived1, arrived2, reduce_msg,
                   reduce_acc, combined, aborted, exit_code, seq, omp, region,
                   stderr, invoked, now, call>>

\* The runtime ends a rank after MPI_Abort
MpiKill(r) ==
    /\ prog = "mpi" /\ aborted
    /\ pc[r] \notin {"aborted", "done"}
    /\ pc' = [pc EXCEPT ![r] = "aborted"]
    /\ exit_code' = [exit_code EXCEPT ![r] = {EXIT_FAILURE}]
    /\ UNCHANGED <<prog, argv, size, params, inicio, fin, suma_local, suma_total,
                   start_time, end_time, bcast_msg, arrived1, arrived2, reduce_msg,
                   reduce_acc, combined, aborted, seq, omp, region, stdout, stderr,
                   invoked, now, call>>

\* A broadcast that leaves out the last rank
BcastDestShort(w) == 1..(w - 2)

\* The ranks a broadcast from root 0 over w ranks delivers to
BcastDest(w) == 1..(w - 1)

\* MPI_Bcast at the root: the payload leaves for every other rank
BcastRoot ==
    /\ prog = "mpi" /\ pc[0] = "bcast" /\ ~aborted
    /\ bcast_msg' = [r \in Ranks |-> IF r \in BcastDest(size) THEN {params[0]} ELSE {}]
    /\ pc' = [pc EXCEPT ![0] = "partition"]
    /\ UNCHANGED <<prog, argv, size, params, inicio, fin, suma_local, suma_total,
                   start_time, end_time, arrived1, arrived2, reduce_msg, reduce_acc,
                   combined, aborted, exit_code, seq, omp, region, stdout, stderr,
                   invoked, now, call>>

\* MPI_Bcast at another rank: blocks until the payload is there
BcastRecv(r) ==
    /\ prog = "mpi" /\ r # 0 /\ pc[r] = "bcast" /\ ~aborted
    /\ \E m \in bcast_msg[r] :
          /\ params' = [params EXCEPT ![r] = m]
          /\ bcast_msg' = [bcast_msg EXCEPT ![r] = {}]
    /\ pc' = [pc EXCEPT ![r] = "partition"]
    /\ UNCHANGED <<prog, argv, size, inicio, fin, suma_local, suma_total,
                   start_time, end_time, arrived1, arrived2, reduce_msg, reduce_acc,
                   combined, aborted, exit_code, seq, omp, region, stdout, stderr,
                   invoked, now, call>>

\* The share rounded up instead of truncated
SubintervalosCeil(n, w) == TruncDiv(n + w - 1, w)

\* long subintervalos_por_proceso = params.n / size
SubintervalosPorProceso(n, w) == TruncDiv(n, w)

\* Inicio counting the indices from 1
InicioOneBased(rank, n, w) == rank * SubintervalosPorProceso(n, w) + 1

\* long inicio = rank * subintervalos_por_proceso
Inicio(rank, n, w) == rank * SubintervalosPorProceso(n, w)

\* Fin without the remainder going to the last rank
FinNoRemainder(rank, n, w) == Inicio(rank, n, w) + SubintervalosPorProceso(n, w)

\* Fin with the last rank stopping one index short of n
FinLastShort(rank, n, w) ==
    IF rank = w - 1 THEN n - 1 ELSE Inicio(rank, n, w) + SubintervalosPorProceso(n, w)

\* long fin = (rank == size - 1) ? params.n : inicio + subintervalos_por_proceso
Fin(rank, n, w) ==
    IF rank = w - 1 THEN n ELSE Inicio(rank, n, w) + SubintervalosPorProceso(n, w)

\* The range of the rank, then MPI_Barrier is entered
Partition(r) ==
    /\ prog = "mpi" /\ pc[r] = "partition" /\ ~aborted
    /\ inicio' = [inicio EXCEPT ![r] = Inicio(r, params[r].n, size)]
    /\ fin' = [fin EXCEPT ![r] = Fin(r, params[r].n, size)]
    /\ arrived1' = arrived1 \cup {r}
    /\ pc' = [pc EXCEPT ![r] = "barrier1"]
    /\ UNCHANGED <<prog, argv, size, params, suma_local, suma_total,
                   start_time, end_time, bcast_msg, arrived2, reduce_msg, reduce_acc,
                   combined, aborted, exit_code, seq, omp, region, stdout, stderr,
                   invoked, now, call>>

\* A barrier that does not wait for the last rank to enter
BarrierCompleteButOne(arrived, w) == Cardinality(arrived) >= w - 1

\* A barrier that lets a rank go as soon as any rank has entered
BarrierCompleteAny(arrived, w) == arrived # {}

\* MPI_Barrier lets a rank go once every rank of the communicator has entered
BarrierComplete(arrived, w) == arrived = 0..(w - 1)

\* The first barrier is left, start_time = MPI_Wtime()
Barrier1Leave(r) ==
    /\ prog = "mpi" /\ pc[r] = "barrier1" /\ ~aborted
    /\ BarrierComplete(arrived1, size)
    /\ \E t \in ClockReadings :
          /\ now' = t
          /\ start_time' = [start_time EXCEPT ![r] = t]
    /\ pc' = [pc EXCEPT ![r] = "compute"]
    /\ UNCHANGED <<prog, argv, size, params, inicio, fin, suma_local, suma_total,
                   end_time, bcast_msg, arrived1, arrived2, reduce_msg, reduce_acc,
                   combined, aborted, exit_code, seq, omp, region, stdout, stderr,
                   invoked, call>>

\* suma_local = calcular_suma_riemann(params, inicio, fin)
Compute(r) ==
    /\ prog = "mpi" /\ pc[r] = "compute" /\ ~aborted
    /\ suma_local' = [suma_local EXCEPT ![r] = calcular_suma_riemann(params[r], inicio[r], fin[r])]
    /\ invoked' = invoked + 1
    /\ pc' = [pc EXCEPT ![r] = "reduce"]
    /\ UNCHANGED <<prog, argv, size, params, inicio, fin, suma_total,
                   start_time, end_time, bcast_msg, arrived1, arrived2, reduce_msg,
                   reduce_acc, combined, aborted, exit_code, seq, omp, region,
                   stdout, stderr, now, call>>

\* MPI_Reduce at a rank other than the root: the contribution leaves, the
\* call returns and the second barrier is entered
ReduceSend(r) ==
    /\ prog = "mpi" /\ r # 0 /\ pc[r] = "reduce" /\ ~aborted
    /\ reduce_msg' = [reduce_msg EXCEPT ![r] = {suma_local[r]}]
    /\ arrived2' = arrived2 \cup {r}
    /\ pc' = [pc EXCEPT ![r] = "barrier2"]
    /\ UNCHANGED <<prog, argv, size, params, inicio, fin, suma_local, suma_total,
                   start_time, end_time, bcast_msg, arrived1, reduce_acc,
                   combined, aborted, exit_code, seq, omp, region, stdout, stderr,
                   invoked, now, call>>

\* MPI_Reduce at the root: its own contribution joins the others
ReduceRoot ==
    /\ prog = "mpi" /\ pc[0] = "reduce" /\ ~aborted
    /\ reduce_msg' = [reduce_msg EXCEPT ![0] = {suma_local[0]}]
    /\ pc' = [pc EXCEPT ![0] = "reducing"]
    /\ UNCHANGED <<prog, argv, size, params, inicio, fin, suma_local, suma_total,
                   start_time, end_time, bcast_msg, arrived1, arrived2, reduce_acc,
                   combined, aborted, exit_code, seq, omp, region, stdout, stderr,
                   invoked, now, call>>

\* MPI_SUM at the root: one contribution that has arrived is added, in any order
ReduceCombine(src) ==
    /\ prog = "mpi" /\ pc[0] = "reducing" /\ ~aborted
    /\ \E v \in reduce_msg[src] :
          /\ reduce_acc' = Add(reduce_acc, v)
          /\ reduce_msg' = [reduce_msg EXCEPT ![src] = {}]
    /\ combined' = [combined EXCEPT ![src] = @ + 1]
    /\ UNCHANGED <<prog, argv, size, pc, params, inicio, fin, suma_local, suma_total,
                   start_time, end_time, bcast_msg, arrived1, arrived2,
                   aborted, exit_code, seq, omp, region, stdout, stderr,
                   invoked, now, call>>

\* A reduction that returns at the root after the first contribution
ReduceCompleteAny(done, w) == \E r \in 0..(w - 1) : done[r] >= 1

\* MPI_Reduce returns at the root once every rank's contribution is in
ReduceComplete(done, w) == \A r \in 0..(w - 1) : done[r] >= 1

\* MPI_Reduce returns at the root with suma_total, the second barrier is entered
ReduceDone ==
    /\ prog = "mpi" /\ pc[0] = "reducing" /\ ~aborted
    /\ ReduceComplete(combined, size)
    /\ suma_total' = [suma_total EXCEPT ![0] = reduce_acc]
    /\ arrived2' = arrived2 \cup {0}
    /\ pc' = [pc EXCEPT ![0] = "barrier2"]
    /\ UNCHANGED <<prog, argv, size, params, inicio, fin, suma_local,
                   start_time, end_time, bcast_msg, arrived1, reduce_msg, reduce_acc,
                   combined, aborted, exit_code, seq, omp, region, stdout, stderr,
                   invoked, now, call>>

\* The second barrier is left, end_time = MPI_Wtime()
Barrier2Leave(r) ==
    /\ prog = "mpi" /\ pc[r] = "barrier2" /\ ~aborted
    /\ BarrierComplete(arrived2, size)
    /\ \E t \in ClockReadings :
          /\ now' = t
          /\ end_time' = [end_time EXCEPT ![r] = t]
    /\ pc' = [pc EXCEPT ![r] = "report"]
    /\ UNCHANGED <<prog, argv, size, params, inicio, fin, suma_local, suma_total,
                   start_time, bcast_msg, arrived1, arrived2, reduce_msg, reduce_acc,
                   combined, aborted, exit_code, seq, omp, region, stdout, stderr,
                   invoked, call>>

\* The result lines printed without the rank == 0 test
ReportAll(r) ==
    /\ prog = "mpi" /\ pc[r] = "report" /\ ~aborted
    /\ stdout' = stdout \o <<Line("Resultado", suma_total[r], 0),
                             Line("Tiempo", Zero, end_time[r] - start_time[r])>>
    /\ pc' = [pc EXCEPT ![r] = "done"]
    /\ exit_code' = [exit_code EXCEPT ![r] = {EXIT_SUCCESS}]
    /\ UNCHANGED <<prog, argv, size, params, inicio, fin, suma_local, suma_total,
                   start_time, end_time, bcast_msg, arrived1, arrived2, reduce_msg,
                   reduce_acc, combined, aborted, seq, omp, region, stderr,
                   invoked, now, call>>

\* if (rank == 0) the two result lines; MPI_Finalize; return 0
Report(r) ==
    /\ prog = "mpi" /\ pc[r] = "report" /\ ~aborted
    /\ stdout' = IF r = 0
                 THEN stdout \o <<Line("Resultado", suma_total[r], 0),
                                  Line("Tiempo", Zero, end_time[r] - start_time[r])>>
                 ELSE stdout
    /\ pc' = [pc EXCEPT ![r] = "done"]
    /\ exit_code' = [exit_code EXCEPT ![r] = {EXIT_SUCCESS}]
    /\ UNCHANGED <<prog, argv, size, params, inicio, fin, suma_local, suma_total,
                   start_time, end_time, bcast_msg, arrived1, arrived2, reduce_msg,
                   reduce_acc, combined, aborted, seq, omp, region, stderr,
                   invoked, now, call>>

MpiNext ==
    \/ MpiUsage
    \/ MpiReject
    \/ MpiParse
    \/ BcastRoot
    \/ ReduceRoot
    \/ ReduceDone
    \/ \E r \in Ranks : BcastRecv(r)
    \/ \E r \in Ranks : Partition(r)
    \/ \E r \in Ranks : Barrier1Leave(r)
    \/ \E r \in Ranks : Compute(r)
    \/ \E r \in Ranks : ReduceSend(r)
    \/ \E r \in Ranks : ReduceCombine(r)
    \/ \E r \in Ranks : Barrier2Leave(r)
    \/ \E r \in Ranks : Report(r)
    \/ \E r \in Ranks : MpiKill(r)

\* ----------------------------------------------- riemann_suma_secuencial.c
SeqBadArgc(n_args) == n_args # SeqArgc

\* n <= 0
SeqInvalidN(n) == n <= 0

InitSeq ==
    /\ prog = "seq"
    /\ argv \in {MkArgv(l) : l \in SeqLines \cup ShortLines(SeqLines)}
    /\ seq = [SeqOff EXCEPT !.pc = "args"]
    /\ MpiOff
    /\ omp = OmpOff /\ region = RegionOff /\ call = CallOff

SeqUsage ==
    /\ prog = "seq" /\ seq.pc = "args"
    /\ SeqBadArgc(argc)
    /\ stderr' = Append(stderr, "Uso")
    /\ seq' = [seq EXCEPT !.pc = "done", !.exit = {EXIT_FAILURE}]
    /\ UNCHANGED <<prog, argv, mpiVars, omp, region, stdout, invoked, now, call>>

SeqReject ==
    /\ prog = "seq" /\ seq.pc = "args"
    /\ ~SeqBadArgc(argc)
    /\ SeqInvalidN(atol(argv[3]))
    /\ stderr' = Append(stderr, "El numero de subintervalos debe ser un entero positivo")
    /\ seq' = [seq EXCEPT !.pc = "done", !.exit = {EXIT_FAILURE},
                          !.a = atof(argv[1]), !.b = atof(argv[2]), !.n = atol(argv[3])]
    /\ UNCHANGED <<prog, argv, mpiVars, omp, region, stdout, invoked, now, call>>

\* The arguments are accepted, inicio = clock()
SeqParse ==
    /\ prog = "seq" /\ seq.pc = "args"
    /\ ~SeqBadArgc(argc)
    /\ ~SeqInvalidN(atol(argv[3]))
    /\ stdout' = Append(stdout, Line("Aproximando", Zero, 0))
    /\ \E t \in ClockReadings :
          /\ now' = t
          /\ seq' = [seq EXCEPT !.pc = "compute", !.inicio = t,
                                !.a = atof(argv[1]), !.b = atof(argv[2]),
                                !.n = atol(argv[3])]
    /\ UNCHANGED <<prog, argv, mpiVars, omp, region, stderr, invoked, call>>

\* suma_total = calcular_suma_riemann(a, b, n), fin = clock()
SeqCompute ==
    /\ prog = "seq" /\ seq.pc = "compute"
    /\ \E t \in ClockReadings :
          /\ now' = t
          /\ seq' = [seq EXCEPT !.pc = "report", !.fin = t,
                                !.suma_total =
                                    calcular_suma_riemann_secuencial(seq.a, seq.b, seq.n)]
    /\ invoked' = invoked + 1
    /\ UNCHANGED <<prog, argv, mpiVars, omp, region, stdout, stderr, call>>

SeqReport ==
    /\ prog = "seq" /\ seq.pc = "report"
    /\ stdout' = stdout \o <<Line("Resultado", seq.suma_total, 0),
                             Line("Tiempo", Zero, seq.fin - seq.inicio)>>
    /\ seq' = [seq EXCEPT !.pc = "done", !.exit = {EXIT_SUCCESS}]
    /\ UNCHANGED <<prog, argv, mpiVars, omp, region, stderr, invoked, now, call>>

SeqNext == SeqUsage \/ SeqReject \/ SeqParse \/ SeqCompute \/ SeqReport

\* --------------------------------------------------- openmp_riemann_suma.c
OmpBadArgc(n_args) == n_args # OmpArgc

\* n <= 0 || num_hilos <= 0
OmpInvalid(n, num_hilos) == n <= 0 \/ num_hilos <= 0

Hilos == 0..(omp.num_hilos - 1)

\* A reduction that keeps one thread's private total only
SumOverFirst(f, S) == IF S = {} THEN Zero ELSE f[CHOOSE t \in S : TRUE]

RECURSIVE SumOver(_, _)
SumOver(f, S) ==
    IF S = {} THEN Zero
    ELSE LET t == CHOOSE t \in S : TRUE IN Add(f[t], SumOver(f, S \ {t}))

InitOmp ==
    /\ prog = "omp"
    /\ argv \in {MkArgv(l) : l \in OmpLines \cup ShortLines(OmpLines)}
    /\ omp = [OmpOff EXCEPT !.pc = "args"]
    /\ MpiOff
    /\ seq = SeqOff /\ region = RegionOff /\ call = CallOff

OmpUsage ==
    /\ prog = "omp" /\ omp.pc = "args"
    /\ OmpBadArgc(argc)
    /\ stderr' = Append(stderr, "Uso")
    /\ omp' = [omp EXCEPT !.pc = "done", !.exit = {EXIT_FAILURE}]
    /\ UNCHANGED <<prog, argv, mpiVars, seq, region, stdout, invoked, now, call>>

OmpReject ==
    /\ prog = "omp" /\ omp.pc = "args"
    /\ ~OmpBadArgc(argc)
    /\ OmpInvalid(atol(argv[3]), atoi(argv[4]))
    /\ stderr' = Append(stderr, "El numero de subintervalos y el numero de hilos deben ser enteros positivos")
    /\ omp' = [omp EXCEPT !.pc = "done", !.exit = {EXIT_FAILURE},
                          !.a = atof(argv[1]), !.b = atof(argv[2]),
                          !.n = atol(argv[3]), !.num_hilos = atoi(argv[4])]
    /\ UNCHANGED <<prog, argv, mpiVars, seq, region, stdout, invoked, now, call>>

\* The arguments are accepted, start_time = omp_get_wtime()
OmpParse ==
    /\ prog = "omp" /\ omp.pc = "args"
    /\ ~OmpBadArgc(argc)
    /\ ~OmpInvalid(atol(argv[3]), atoi(argv[4]))
    /\ stdout' = Append(stdout, Line("Aproximando", Zero, 0))
    /\ \E t \in ClockReadings :
          /\ now' = t
          /\ omp' = [omp EXCEPT !.pc = "call", !.start_time = t,
                                !.a = atof(argv[1]), !.b = atof(argv[2]),
                                !.n = atol(argv[3]), !.num_hilos = atoi(argv[4])]
    /\ UNCHANGED <<prog, argv, mpiVars, seq, region, stderr, invoked, call>>

\* calcular_suma_riemann_openmp is entered: delta_x, suma = 0.0, and the team
\* of num_hilos threads starts, each with a private suma of 0.0
OmpFork ==
    /\ prog = "omp" /\ omp.pc = "call"
    /\ region' = [todo |-> 0..(omp.n - 1),
                  suma |-> [t \in Hilos |-> Zero],
                  owner |-> [i \in {} |-> 0],
                  delta_x |-> DeltaX(omp.a, omp.b, omp.n)]
    /\ invoked' = invoked + 1
    /\ omp' = [omp EXCEPT !.pc = "parallel"]
    /\ UNCHANGED <<prog, argv, mpiVars, seq, stdout, stderr, now, call>>

\* One iteration of the loop, run by thread t on an index nobody has run
OmpIter(t) ==
    /\ prog = "omp" /\ omp.pc = "parallel"
    /\ \E i \in region.todo :
          region' = [region EXCEPT
                        !.todo = @ \ {i},
                        !.owner = [j \in (DOMAIN @) \cup {i} |-> IF j = i THEN t ELSE @[j]],
                        !.suma[t] = Add(@, Term(funcion(MidPoint(omp.a, omp.b, omp.n, i)),
                                                region.delta_x))]
    /\ UNCHANGED <<prog, argv, mpiVars, seq, omp, stdout, stderr, invoked, now, call>>

\* The end of the parallel region: the private copies are added to suma,
\* the function returns, end_time = omp_get_wtime()
OmpJoin ==
    /\ prog = "omp" /\ omp.pc = "parallel"
    /\ region.todo = {}
    /\ \E t \in ClockReadings :
          /\ now' = t
          /\ omp' = [omp EXCEPT !.pc = "report", !.end_time = t,
                                !.suma_total = Add(Zero, SumOver(region.suma, Hilos))]
    /\ UNCHANGED <<prog, argv, mpiVars, seq, region, stdout, stderr, invoked, call>>

OmpReport ==
    /\ prog = "omp" /\ omp.pc = "report"
    /\ stdout' = stdout \o <<Line("Resultado", omp.suma_total, 0),
                             Line("Tiempo", Zero, omp.end_time - omp.start_time)>>
    /\ omp' = [omp EXCEPT !.pc = "done", !.exit = {EXIT_SUCCESS}]
    /\ UNCHANGED <<prog, argv, mpiVars, seq, region, stderr, invoked, now, call>>

OmpNext ==
    \/ OmpUsage
    \/ OmpReject
    \/ OmpParse
    \/ OmpFork
    \/ \E t \in Hilos : OmpIter(t)
    \/ OmpJoin
    \/ OmpReport

\* ------------------------------------- a bare call of calcular_suma_riemann
CallInputs ==
    {[state |-> "ready", params |-> [a |-> atof(a), b |-> atof(b), n |-> n],
      inicio |-> i, fin |-> f, ret |-> Zero, calls |-> 0] :
        a \in LowerArgs \cup UpperArgs, b \in LowerArgs \cup UpperArgs,
        n \in 1..MaxN, i \in 0..MaxN, f \in 0..MaxN}

InitCall ==
    /\ InitCommon
    /\ prog = "none"
    /\ argv = MkArgv(<<Name("none")>>)
    /\ call \in {c \in CallInputs : c.inicio <= c.params.n /\ c.fin <= c.params.n}
    /\ MpiOff
    /\ seq = SeqOff /\ omp = OmpOff /\ region = RegionOff

CallInvoke ==
    /\ prog = "none" /\ call.state = "ready"
    /\ call' = [call EXCEPT !.state = "returned",
                            !.ret = calcular_suma_riemann(call.params, call.inicio, call.fin),
                            !.calls = IntegrandCalls(call.params, call.inicio, call.fin)]
    /\ invoked' = invoked + 1
    /\ UNCHANGED <<prog, argv, mpiVars, seq, omp, region, stdout, stderr, now>>

\* ------------------------------------------------------- the specification
Init == InitCommon /\ (InitMpi \/ InitSeq \/ InitOmp)
Next == MpiNext \/ SeqNext \/ OmpNext
Spec == Init /\ [][Next]_vars

\* The processes keep being scheduled and the MPI library keeps delivering:
\* while some step of the distributed program stays possible, one is taken
FairSpec == Spec /\ WF_vars(MpiNext)

\* calcular_suma_riemann called on its own, on any range within [0, n]
SpecCall == InitCall /\ [][CallInvoke]_vars

\* ------------------------------------------------------------- properties
\* Rank r has computed its range (lines 98-100 have run)
Partitioned(r) == pc[r] \notin {"args", "bcast", "partition", "aborted"}

\* Rank r has returned from MPI_Bcast
PastBcast(r) == pc[r] \notin {"args", "bcast", "aborted"}

\* Rank r is in or past calcular_suma_riemann
Computing(r) == pc[r] \in {"compute", "reduce", "reducing", "barrier2", "report", "done"}

\* MPI_Reduce has returned at the root
Reduced == pc[0] \in {"barrier2", "report", "done"}

AllPartitioned == prog = "mpi" /\ \A r \in Ranks : Partitioned(r)

MpiAllDone == prog = "mpi" /\ \A r \in Ranks : pc[r] = "done"

MpiValid == prog = "mpi" /\ argc = MpiArgc /\ atol(argv[3]) > 0

\* The indices of the half-open range [inicio, fin) of rank r
Indices(r) == inicio[r]..(fin[r] - 1)

ResultLines(out) == {k \in 1..Len(out) : out[k].text = "Resultado"}

\* C1 (partition completeness): in the distributed run with n > 0 subintervals
\* and w >= 1 ranks, no index of [0, n) lies in the ranges of two ranks, no
\* range holds an index outside [0, n), and once every rank has its range
\* every index of [0, n) lies in exactly one of them.
C1_PartitionCompleteness ==
    prog = "mpi" =>
        /\ \A r \in Ranks : Partitioned(r) => Indices(r) \subseteq 0..(params[0].n - 1)
        /\ \A r, q \in Ranks :
              (Partitioned(r) /\ Partitioned(q) /\ r # q) => Indices(r) \cap Indices(q) = {}
        /\ AllPartitioned =>
              \A i \in 0..(params[0].n - 1) :
                  Cardinality({r \in Ranks : i \in Indices(r)}) = 1

C1_Witness ==
    /\ AllPartitioned
    /\ size = 2 /\ params[0].n = 3

\* C2 (parallel/sequential equivalence): with exact addition, the total that
\* rank 0 gets from the reduction, and prints, is the sum the sequential
\* calcular_suma_riemann(a, b, n) computes over [0, n), whatever the number
\* of ranks.
C2_ParallelSequentialEquivalence ==
    (prog = "mpi" /\ Reduced) =>
        /\ suma_total[0] =
              calcular_suma_riemann_secuencial(params[0].a, params[0].b, params[0].n)
        /\ \A k \in ResultLines(stdout) :
              stdout[k].suma =
                  calcular_suma_riemann_secuencial(atof(argv[1]), atof(argv[2]), atol(argv[3]))

C2_Witness ==
    /\ prog = "mpi" /\ size = 3 /\ pc[0] = "done"
    /\ params[0].a # params[0].b /\ params[0].n = 2
    /\ ResultLines(stdout) # {}

\* The command line has the right number of arguments and a subinterval
\* count (or, for OpenMP, a thread count) that is not positive
Rejected ==
    \/ prog = "mpi" /\ argc = MpiArgc /\ atol(argv[3]) <= 0
    \/ prog = "seq" /\ argc = SeqArgc /\ atol(argv[3]) <= 0
    \/ prog = "omp" /\ argc = OmpArgc /\ (atol(argv[3]) <= 0 \/ atoi(argv[4]) <= 0)

\* No process of the program has ended with status 0
NoSuccess ==
    /\ \A r \in Ranks : EXIT_SUCCESS \notin exit_code[r]
    /\ EXIT_SUCCESS \notin seq.exit
    /\ EXIT_SUCCESS \notin omp.exit

\* Every process of the program has ended with EXIT_FAILURE
EndedInFailure ==
    /\ prog = "mpi" => \A r \in Ranks : exit_code[r] = {EXIT_FAILURE}
    /\ prog = "seq" => seq.exit = {EXIT_FAILURE}
    /\ prog = "omp" => omp.exit = {EXIT_FAILURE}

\* C3 (input rejection): in all three programs, with n <= 0 (or, for OpenMP,
\* num_hilos <= 0) no Riemann-sum function is ever called, no "Resultado"
\* line is ever printed, no process ends with status 0, and when the program
\* can take no further step every process has ended with a nonzero status.
C3_InputRejection ==
    Rejected =>
        /\ invoked = 0
        /\ ~Printed(stdout, "Resultado")
        /\ NoSuccess
        /\ (~ENABLED Next) => EndedInFailure

C3_Witness ==
    /\ prog = "mpi" /\ size = 3 /\ Rejected
    /\ atol(argv[3]) = -5
    /\ \A r \in Ranks : exit_code[r] = {EXIT_FAILURE}

\* C4 (broadcast invariant): every rank that has returned from MPI_Bcast
\* holds, from then on, the params rank 0 parsed and validated, with n > 0;
\* and while any rank is in or past calcular_suma_riemann every rank has
\* returned from MPI_Bcast.
C4_BroadcastInvariant ==
    prog = "mpi" =>
        /\ \A r \in Ranks : PastBcast(r) => (params[r] = MpiParsed /\ params[r].n > 0)
        /\ (\E r \in Ranks : Computing(r)) => \A q \in Ranks : PastBcast(q)

C4_Witness ==
    /\ prog = "mpi" /\ size = 3
    /\ pc[2] = "compute" /\ pc[0] = "barrier1" /\ pc[1] = "reduce"

\* C5 (reduction completeness): once MPI_Reduce has returned at rank 0,
\* every rank has sent its suma_local, each contribution has been added
\* exactly once and none is left over, and suma_total at rank 0, the value
\* printed, is the sum of the suma_local of all ranks.
C5_ReductionCompleteness ==
    (prog = "mpi" /\ Reduced) =>
        /\ \A r \in Ranks : Computing(r) /\ pc[r] # "compute" /\ pc[r] # "reduce"
        /\ \A r \in Ranks : combined[r] = 1 /\ reduce_msg[r] = {}
        /\ suma_total[0] = SumOver(suma_local, Ranks)
        /\ \A k \in ResultLines(stdout) : stdout[k].suma = SumOver(suma_local, Ranks)

C5_Witness ==
    /\ prog = "mpi" /\ size = 3 /\ pc[0] = "done"
    /\ params[0].a # params[0].b /\ params[0].n = 3
    /\ \A r \in Ranks : suma_local[r] # Zero
    /\ ResultLines(stdout) # {}

\* C6 (run to completion): under fair scheduling a distributed run with
\* valid input reaches the state where every rank has ended, and then rank 0
\* has printed the result exactly once; it is never printed twice.
C6_RunToCompletion ==
    /\ MpiValid ~> MpiAllDone
    /\ [](MpiValid => Cardinality(ResultLines(stdout)) <= 1)
    /\ []((MpiValid /\ MpiAllDone) => Cardinality(ResultLines(stdout)) = 1)

C6_Witness ==
    /\ MpiValid /\ MpiAllDone /\ size = 3
    /\ Cardinality(ResultLines(stdout)) = 1

\* C7 (empty-range neutrality): calcular_suma_riemann on a range with
\* inicio = fin returns 0.0 and does not call funcion, for any a, b and n > 0.
C7_EmptyRangeNeutrality ==
    (call.state = "returned" /\ call.inicio = call.fin) =>
        (call.ret = Zero /\ call.calls = 0)

C7_Witness ==
    /\ call.state = "returned"
    /\ call.inicio = call.fin /\ call.inicio = 2
    /\ call.params.a # call.params.b /\ call.params.n = 3

\* The command line is well formed and a = b
ZeroWidth ==
    /\ prog \in {"mpi", "seq", "omp"}
    /\ argc = (IF prog = "omp" THEN OmpArgc ELSE MpiArgc)
    /\ atof(argv[1]) = atof(argv[2])

\* C8 (zero-width domain): with a = b every partial sum and every total is
\* 0.0: each rank's suma_local, the reduction's total and the printed value
\* in the distributed program, and the totals of the sequential and the
\* OpenMP program, each thread's private sum included.
C8_ZeroWidthDomain ==
    ZeroWidth =>
        /\ \A r \in Ranks : suma_local[r] = Zero /\ suma_total[r] = Zero
        /\ reduce_acc = Zero
        /\ seq.suma_total = Zero
        /\ omp.suma_total = Zero
        /\ \A t \in DOMAIN region.suma : region.suma[t] = Zero
        /\ \A k \in ResultLines(stdout) : stdout[k].suma = Zero

C8_Witness ==
    /\ ZeroWidth /\ prog = "mpi" /\ size = 2 /\ pc[0] = "done"
    /\ params[0].n = 3 /\ invoked = 2
    /\ ResultLines(stdout) # {}

\* C9 as claimed (degenerate partition): with n > 0 and w > n, every rank
\* r >= n has an empty range.
C9_HighRanksEmpty ==
    (MpiValid /\ size > atol(argv[3])) =>
        \A r \in Ranks : (Partitioned(r) /\ r >= params[0].n) => inicio[r] = fin[r]

\* C9 as amended: with n > 0 and w > n, every rank but the last has the
\* empty range [0, 0), and the last rank, w - 1 >= n, has the whole of [0, n).
C9_AllButLastEmpty ==
    (MpiValid /\ size > atol(argv[3])) =>
        \A r \in Ranks :
            Partitioned(r) =>
                IF r = size - 1
                THEN inicio[r] = 0 /\ fin[r] = params[0].n /\ fin[r] > inicio[r]
                ELSE inicio[r] = 0 /\ fin[r] = 0

C9_Witness ==
    /\ AllPartitioned /\ size = 3 /\ params[0].n = 1

\* C10 (partition policy): with base = n / w truncating, each rank r < w - 1
\* has [r * base, r * base + base), the last rank has [(w - 1) * base, n),
\* and every range satisfies 0 <= inicio <= fin <= n.
C10_PartitionPolicy ==
    MpiValid =>
        \A r \in Ranks :
            Partitioned(r) =>
                LET n == atol(argv[3])
                    base == n \div size
                IN /\ inicio[r] = r * base
                   /\ fin[r] = (IF r = size - 1 THEN n ELSE r * base + base)
                   /\ r < size - 1 => Cardinality(Indices(r)) = base
                   /\ 0 <= inicio[r] /\ inicio[r] <= fin[r] /\ fin[r] <= n

C10_Witness ==
    /\ AllPartitioned /\ size = 3 /\ params[0].n = 2

\* C11 (bounded load imbalance): the last rank has exactly n mod w more
\* indices than any other rank, which is at most w - 1, and no rank other
\* than the last has more than base = n / w indices.
C11_BoundedLoadImbalance ==
    MpiValid =>
        LET n == atol(argv[3])
            last == size - 1
        IN \A r \in Ranks \ {last} :
               (Partitioned(r) /\ Partitioned(last)) =>
                   /\ Cardinality(Indices(last)) - Cardinality(Indices(r)) = n % size
                   /\ Cardinality(Indices(last)) - Cardinality(Indices(r)) <= size - 1
                   /\ Cardinality(Indices(r)) <= n \div size

C11_Witness ==
    /\ AllPartitioned /\ size = 3 /\ params[0].n = 2
    /\ pc[0] = "compute" /\ pc[1] = "barrier1"
    /\ Cardinality(Indices(2)) = 2 /\ Cardinality(Indices(0)) = 0

\* The total of a run over w ranks, as fixed by (a, b, n, w) alone: the sum
\* over the ranks of the sum over each rank's range
RECURSIVE TotalOfRanks(_, _, _)
TotalOfRanks(p, w, r) ==
    IF r >= w THEN Zero
    ELSE Add(calcular_suma_riemann(p, Inicio(r, p.n, w), Fin(r, p.n, w)),
             TotalOfRanks(p, w, r + 1))

\* A step changes suma_local, inicio or fin of rank r
WritesRank(r) ==
    \/ suma_local'[r] # suma_local[r]
    \/ inicio'[r] # inicio[r]
    \/ fin'[r] # fin[r]

\* C12 (interleaving independence): with exact addition, whatever the order
\* of the ranks' steps and of the arrival of their partial sums, the total
\* at rank 0 after the reduction is the one value fixed by (a, b, n, w); and
\* a step that changes suma_local, inicio or fin of a rank is a step of that
\* rank alone, which computes them from that rank's own params, inicio and
\* fin.
C12_InterleavingIndependence ==
    /\ []((prog = "mpi" /\ Reduced) => suma_total[0] = TotalOfRanks(MpiParsed, size, 0))
    /\ [][prog = "mpi" =>
            \A r \in Ranks :
                WritesRank(r) =>
                    /\ pc'[r] # pc[r]
                    /\ \A q \in Ranks \ {r} : pc'[q] = pc[q] /\ ~WritesRank(q)
                    /\ \/ /\ pc[r] = "partition"
                          /\ inicio'[r] = Inicio(r, params[r].n, size)
                          /\ fin'[r] = Fin(r, params[r].n, size)
                          /\ suma_local'[r] = suma_local[r]
                       \/ /\ pc[r] = "compute"
                          /\ suma_local'[r] =
                                calcular_suma_riemann(params[r], inicio[r], fin[r])
                          /\ inicio'[r] = inicio[r] /\ fin'[r] = fin[r]]_vars

C12_Witness ==
    /\ prog = "mpi" /\ size = 3 /\ Reduced
    /\ params[0].a # params[0].b /\ params[0].n = 3
    /\ pc[1] = "barrier2" /\ pc[2] = "report"
    /\ suma_total[0] # Zero

\* The distributed program is given a wrong number of arguments or n <= 0
MpiFails == prog = "mpi" /\ (argc # MpiArgc \/ atol(argv[3]) <= 0)

\* C13 (error propagation): in the distributed program only rank 0 reports
\* an input error, once, and it does so by aborting before MPI_Bcast; when
\* the input is wrong no rank ever gets past MPI_Bcast: no payload leaves the
\* root, no range is computed, calcular_suma_riemann is never called, nothing
\* enters a barrier or the reduction, and the run can only end with every
\* rank ended by the abort with EXIT_FAILURE.
C13_ErrorPropagation ==
    prog = "mpi" =>
        /\ Len(stderr) <= 1
        /\ stderr # <<>> => (MpiFails /\ aborted /\ pc[0] = "aborted")
        /\ aborted => (MpiFails /\ pc[0] = "aborted" /\ exit_code[0] = {EXIT_FAILURE})
        /\ MpiFails =>
              /\ pc[0] \in {"args", "aborted"}
              /\ \A r \in Ranks \ {0} : pc[r] \in {"bcast", "aborted"}
              /\ \A r \in Ranks :
                    /\ bcast_msg[r] = {} /\ reduce_msg[r] = {} /\ combined[r] = 0
                    /\ inicio[r] = 0 /\ fin[r] = 0
                    /\ suma_local[r] = Zero /\ suma_total[r] = Zero
              /\ invoked = 0
              /\ arrived1 = {} /\ arrived2 = {} /\ reduce_acc = Zero
              /\ (~ENABLED Next) => \A r \in Ranks : exit_code[r] = {EXIT_FAILURE}

C13_Witness ==
    /\ prog = "mpi" /\ size = 3 /\ argc = 3
    /\ stderr = <<"Uso">>
    /\ pc[0] = "aborted" /\ pc[1] = "aborted" /\ pc[2] = "bcast"

\* Rank r has recorded start_time
Started(r) == Computing(r)

\* Rank r has recorded end_time
Stopped(r) == pc[r] \in {"report", "done"}

\* Rank r has finished its computation and its part in the reduction, and
\* has entered the second barrier
Contributed(r) == pc[r] \in {"barrier2", "report", "done"}

\* C14 (timing window): no rank records start_time or begins
\* calcular_suma_riemann before every rank has entered the first barrier; no
\* rank records end_time before every rank has computed, contributed to the
\* reduction and entered the second barrier; each rank writes start_time
\* on leaving the first barrier, before its compute step, and end_time on
\* leaving the second, after its reduce step, so that its end_time is not
\* earlier than its start_time.
C14_TimingWindow ==
    /\ [](prog = "mpi" =>
            /\ \A r \in Ranks :
                  Started(r) => (arrived1 = Ranks /\ \A q \in Ranks : Partitioned(q))
            /\ \A r \in Ranks :
                  Stopped(r) =>
                      /\ arrived2 = Ranks /\ invoked = size
                      /\ \A q \in Ranks : Contributed(q) /\ combined[q] = 1
                      /\ start_time[r] <= end_time[r])
    /\ [][prog = "mpi" =>
            \A r \in Ranks :
                /\ start_time'[r] # start_time[r] =>
                      (pc[r] = "barrier1" /\ pc'[r] = "compute" /\ suma_local[r] = Zero)
                /\ end_time'[r] # end_time[r] =>
                      (pc[r] = "barrier2" /\ pc'[r] = "report" /\ Started(r))]_vars

C14_Witness ==
    /\ prog = "mpi" /\ size = 3
    /\ pc[0] = "report" /\ pc[1] = "barrier2" /\ pc[2] = "done"
    /\ start_time[1] = 0 /\ start_time[0] = 1 /\ end_time[0] = 1

\* The sum of the terms of the indices in S
RECURSIVE TermsOfIndices(_, _, _, _)
TermsOfIndices(a, b, n, S) ==
    IF S = {} THEN Zero
    ELSE LET i == CHOOSE i \in S : TRUE
         IN Add(Term(funcion(MidPoint(a, b, n, i)), DeltaX(a, b, n)),
                TermsOfIndices(a, b, n, S \ {i}))

\* The indices thread t has run
OwnedBy(t) == {i \in DOMAIN region.owner : region.owner[i] = t}

\* C15 (shared-memory reduction): in the OpenMP program with n > 0 and
\* num_hilos >= 1, every index of [0, n) is run at most once, by one thread
\* of the team, and exactly once by the end of the region; each thread's
\* private suma holds the terms of the indices that thread ran and nothing
\* else; a, b, n and delta_x keep their values while the loop runs; and the
\* value returned is set only when no index is left, and is then the sum of
\* all private totals, the terms of all of [0, n).
C15_SharedMemoryReduction ==
    /\ []((prog = "omp" /\ omp.pc \in {"parallel", "report", "done"} /\ omp.exit # {EXIT_FAILURE}) =>
            LET n == atol(argv[3])
                a == atof(argv[1])
                b == atof(argv[2])
            IN /\ omp.a = a /\ omp.b = b /\ omp.n = n /\ omp.num_hilos = atoi(argv[4])
               /\ region.delta_x = DeltaX(a, b, n)
               /\ region.todo \cap DOMAIN region.owner = {}
               /\ region.todo \cup DOMAIN region.owner = 0..(n - 1)
               /\ \A i \in DOMAIN region.owner : region.owner[i] \in Hilos
               /\ \A t \in Hilos : region.suma[t] = TermsOfIndices(a, b, n, OwnedBy(t))
               /\ omp.pc = "parallel" => omp.suma_total = Zero
               /\ omp.pc \in {"report", "done"} =>
                     /\ region.todo = {}
                     /\ omp.suma_total = TermsOfIndices(a, b, n, 0..(n - 1)))
    /\ [][(prog = "omp" /\ omp.pc = "parallel") =>
            /\ Cardinality({t \in Hilos : region'.suma[t] # region.suma[t]}) <= 1
            /\ region'.delta_x = region.delta_x
            /\ omp'.a = omp.a /\ omp'.b = omp.b /\ omp'.n = omp.n
            /\ omp'.suma_total # omp.suma_total => (region.todo = {} /\ omp'.pc = "report")]_vars

C15_Witness ==
    /\ prog = "omp" /\ omp.pc = "done" /\ omp.exit = {EXIT_SUCCESS}
    /\ omp.num_hilos = 2 /\ omp.n = 3 /\ omp.a # omp.b
    /\ OwnedBy(0) = {1} /\ OwnedBy(1) = {0, 2}
    /\ ResultLines(stdout) # {}

TimeLines(out) == {k \in 1..Len(out) : out[k].text = "Tiempo"}

\* C16 (result ownership): in the distributed program suma_total stays 0.0
\* at every rank but 0; the result line and the time line are printed once
\* each, by rank 0's report step and by no other rank's, after MPI_Reduce has
\* returned at rank 0 and every rank has entered the second barrier, and they
\* carry rank 0's suma_total and end_time - start_time.
C16_ResultOwnership ==
    prog = "mpi" =>
        /\ \A r \in Ranks \ {0} : suma_total[r] = Zero
        /\ Cardinality(ResultLines(stdout)) = (IF pc[0] = "done" THEN 1 ELSE 0)
        /\ Cardinality(TimeLines(stdout)) = (IF pc[0] = "done" THEN 1 ELSE 0)
        /\ pc[0] = "done" =>
              /\ arrived2 = Ranks
              /\ \A r \in Ranks : combined[r] = 1
              /\ \A k \in ResultLines(stdout) : stdout[k].suma = suma_total[0]
              /\ \A k \in TimeLines(stdout) : stdout[k].time = end_time[0] - start_time[0]

C16_Witness ==
    /\ MpiAllDone /\ size = 3
    /\ params[0].a # params[0].b /\ params[0].n = 3
    /\ suma_total[0] # Zero /\ suma_local[1] # Zero /\ suma_local[2] # Zero
    /\ suma_total[1] = Zero /\ suma_total[2] = Zero
    /\ end_time[0] - start_time[0] = 1
====
